---------------------------- MODULE Spec2Model ----------------------------
(***************************************************************************)
(* A model of docura's Declaration-to-Model Analyser (package analyser).   *)
(*                                                                         *)
(* Text is modelled as a sequence of characters.  A few multi-character    *)
(* words ("Usage:", "x.Do()", ...) are kept as single atoms of that        *)
(* sequence; the characters the code inspects one by one (space, tab,      *)
(* newline, carriage return) are always single elements.                   *)
(***************************************************************************)
EXTENDS Integers, Sequences, FiniteSets, TLC

(***************************************************************************)
(* Bounds of the model                                                     *)
(***************************************************************************)
MaxLines == 4
MaxNames == 2
MaxFields == 2
MaxSpecs == 1
MaxCalls == 2
MaxDepth == 1
MaxChars == 6
MaxInfos == 1

\* The description lengths below which GeneratePackageDoc asks for a new one.
MinPackageDescription == 50
MinFunctionDescription == 20
MinTypeDescription == 20

(***************************************************************************)
(* Characters and the functions of package strings the analyser uses       *)
(***************************************************************************)
SP == " "
TAB == "\t"
NL == "\n"
CR == "\r"

IsSpace(c) == c \in {SP, TAB, NL, CR}

HasPrefix(s, p) == Len(s) >= Len(p) /\ SubSeq(s, 1, Len(p)) = p

TrimPrefix(s, p) == IF HasPrefix(s, p) THEN SubSeq(s, Len(p) + 1, Len(s)) ELSE s

Contains(s, p) == \E i \in 1..(Len(s) - Len(p) + 1) : SubSeq(s, i, i + Len(p) - 1) = p

TrimSpace(s) ==
    LET keep == {i \in 1..Len(s) : ~IsSpace(s[i])}
    IN  IF keep = {} THEN <<>>
        ELSE SubSeq(s, CHOOSE i \in keep : \A j \in keep : i <= j,
                       CHOOSE i \in keep : \A j \in keep : i >= j)

\* strings.Split(s, "\n"): the pieces between newlines, always at least one.
RECURSIVE SplitLines(_)
SplitLines(s) ==
    LET nl == {i \in 1..Len(s) : s[i] = NL}
    IN  IF nl = {} THEN <<s>>
        ELSE LET k == CHOOSE i \in nl : \A j \in nl : i <= j
             IN  <<SubSeq(s, 1, k - 1)>> \o SplitLines(SubSeq(s, k + 1, Len(s)))

\* strings.Join(parts, sep)
RECURSIVE Join(_, _)
Join(parts, sep) ==
    IF Len(parts) = 0 THEN <<>>
    ELSE IF Len(parts) = 1 THEN parts[1]
    ELSE parts[1] \o sep \o Join(Tail(parts), sep)

(***************************************************************************)
(* The literals of extractExamples                                         *)
(***************************************************************************)
ExampleMarker == <<"Example:">>
UsageMarker == <<"Usage:">>
\* The three backquotes of a code fence are one atom of the text.
BQ3 == "<3 backquotes>"
FenceGo == <<BQ3, "go">>
Fence == <<BQ3>>
Indent4 == <<SP, SP, SP, SP>>
IndentTab == <<TAB>>

(***************************************************************************)
(* extractExamples: the body of the loop over the lines of the doc text.   *)
(* m is the scanner state [inExample, currentExample, examples].           *)
(***************************************************************************)
IsTrigger(line) ==
    LET trimmed == TrimSpace(line)
    IN  \/ HasPrefix(trimmed, ExampleMarker)
        \/ HasPrefix(trimmed, UsageMarker)
        \/ Contains(trimmed, FenceGo)

IsClose(line, buf) ==
    LET trimmed == TrimSpace(line)
    IN  Contains(trimmed, Fence) \/ (trimmed = <<>> /\ Len(buf) > 0)

IsIndented(line) == HasPrefix(line, Indent4) \/ HasPrefix(line, IndentTab)

\* A variant that leaves the indentation in the example.
StripIndent_Kept(line) == line

StripIndent(line) == TrimPrefix(TrimPrefix(line, Indent4), IndentTab)

\* A variant that closes and appends without testing inExample.
ScanLine_Unguarded(m, line) ==
    IF IsTrigger(line)
    THEN [inExample |-> TRUE, currentExample |-> <<>>, examples |-> m.examples]
    ELSE IF IsClose(line, m.currentExample)
    THEN IF Len(m.currentExample) > 0
         THEN [inExample |-> FALSE, currentExample |-> <<>>,
               examples |-> Append(m.examples, m.currentExample)]
         ELSE [m EXCEPT !.inExample = FALSE]
    ELSE IF IsIndented(line)
    THEN [m EXCEPT !.currentExample = @ \o StripIndent(line) \o <<NL>>]
    ELSE m

\* A variant that emits the buffer when a trigger line is met.
ScanLine_EmitOnTrigger(m, line) ==
    IF IsTrigger(line)
    THEN [inExample |-> TRUE, currentExample |-> <<>>,
          examples |-> IF m.inExample /\ Len(m.currentExample) > 0
                       THEN Append(m.examples, m.currentExample)
                       ELSE m.examples]
    ELSE IF m.inExample
    THEN IF IsClose(line, m.currentExample)
         THEN IF Len(m.currentExample) > 0
              THEN [inExample |-> FALSE, currentExample |-> <<>>,
                    examples |-> Append(m.examples, m.currentExample)]
              ELSE [m EXCEPT !.inExample = FALSE]
         ELSE IF IsIndented(line)
              THEN [m EXCEPT !.currentExample = @ \o StripIndent(line) \o <<NL>>]
              ELSE m
    ELSE m

ScanLine(m, line) ==
    IF IsTrigger(line)
    THEN [inExample |-> TRUE, currentExample |-> <<>>, examples |-> m.examples]
    ELSE IF m.inExample
    THEN IF IsClose(line, m.currentExample)
         THEN IF Len(m.currentExample) > 0
              THEN [inExample |-> FALSE, currentExample |-> <<>>,
                    examples |-> Append(m.examples, m.currentExample)]
              ELSE [m EXCEPT !.inExample = FALSE]
         ELSE IF IsIndented(line)
              THEN [m EXCEPT !.currentExample = @ \o StripIndent(line) \o <<NL>>]
              ELSE m
    ELSE m

ScanInit == [inExample |-> FALSE, currentExample |-> <<>>, examples |-> <<>>]

RECURSIVE ScanAll(_, _)
ScanAll(m, ls) == IF ls = <<>> THEN m ELSE ScanAll(ScanLine(m, Head(ls)), Tail(ls))

\* What extractExamples returns after the loop.
ReturnedExamples(m) == m.examples

extractExamples(d) == ReturnedExamples(ScanAll(ScanInit, SplitLines(d)))

(***************************************************************************)
(* cleanDoc                                                                *)
(***************************************************************************)
\* strings.ReplaceAll(s, "\r\n", "\n")
RECURSIVE ReplaceCRLF(_)
ReplaceCRLF(s) ==
    IF s = <<>> THEN <<>>
    ELSE IF Len(s) >= 2 /\ s[1] = CR /\ s[2] = NL
    THEN <<NL>> \o ReplaceCRLF(SubSeq(s, 3, Len(s)))
    ELSE <<s[1]>> \o ReplaceCRLF(Tail(s))

\* The lines trimmed, with the empty ones kept.
TrimmedNonEmpty_KeepBlank(ls) == [i \in 1..Len(ls) |-> TrimSpace(ls[i])]

RECURSIVE TrimmedNonEmpty(_)
TrimmedNonEmpty(ls) ==
    IF ls = <<>> THEN <<>>
    ELSE LET line == TrimSpace(Head(ls))
         IN  (IF line # <<>> THEN <<line>> ELSE <<>>) \o TrimmedNonEmpty(Tail(ls))

cleanDoc(d) ==
    IF d = <<>> THEN <<>>
    ELSE Join(TrimmedNonEmpty(SplitLines(ReplaceCRLF(TrimSpace(d)))), <<NL>>)

(***************************************************************************)
(* Syntax trees (go/ast) as records.  A nil pointer to a field list, a     *)
(* declaration or a literal is a record with nil = TRUE.                   *)
(***************************************************************************)
Ident(n) == [node |-> "Ident", Name |-> n]
StarExpr(x) == [node |-> "StarExpr", X |-> x]
ArrayType(elt) == [node |-> "ArrayType", Elt |-> elt]
MapType(k, v) == [node |-> "MapType", Key |-> k, Value |-> v]
SelectorExpr(x, sel) == [node |-> "SelectorExpr", X |-> x, Sel |-> sel]
InterfaceType(methods) == [node |-> "InterfaceType", Methods |-> methods]
StructType(fl) == [node |-> "StructType", Fields |-> fl]
ChanType == [node |-> "ChanType"]
FuncType == [node |-> "FuncType"]
BasicLit(v) == [node |-> "BasicLit", Value |-> v]
BinaryExpr == [node |-> "BinaryExpr"]
NilExpr == [node |-> "nil"]

Field(names, type, tag) == [Names |-> names, Type |-> type, Tag |-> tag]
FieldList(list) == [nil |-> FALSE, List |-> list]
NilFieldList == [nil |-> TRUE, List |-> <<>>]

(***************************************************************************)
(* typeToString, exprToString, getTypeKind, ast.IsExported                 *)
(***************************************************************************)
RECURSIVE typeToString(_)
typeToString(t) ==
    CASE t.node = "Ident" -> <<t.Name>>
      [] t.node = "StarExpr" -> <<"*">> \o typeToString(t.X)
      [] t.node = "ArrayType" -> <<"[]">> \o typeToString(t.Elt)
      [] t.node = "MapType" ->
            <<"map[">> \o typeToString(t.Key) \o <<"]">> \o typeToString(t.Value)
      [] t.node = "SelectorExpr" -> typeToString(t.X) \o <<".">> \o <<t.Sel>>
      [] t.node = "InterfaceType" -> <<"interface{}">>
      [] OTHER -> <<"unknown">>

exprToString(e) ==
    CASE e.node = "BasicLit" -> <<e.Value>>
      [] e.node = "Ident" -> <<e.Name>>
      [] OTHER -> <<"...">>

getTypeKind(t) ==
    CASE t.node = "StructType" -> "struct"
      [] t.node = "InterfaceType" -> "interface"
      [] t.node = "ArrayType" -> "array"
      [] t.node = "MapType" -> "map"
      [] t.node = "ChanType" -> "channel"
      [] t.node = "FuncType" -> "function"
      [] OTHER -> "alias"

\* The names of the model that begin with an upper-case letter.
UpperCaseNames == {"F", "T", "U", "M", "N", "A", "B", "Reader"}

IsExported(name) == name \in UpperCaseNames

(***************************************************************************)
(* extractParameters, extractReturns, extractFields                        *)
(***************************************************************************)
RECURSIVE ParamsOfNames(_, _)
ParamsOfNames(names, paramType) ==
    IF names = <<>> THEN <<>>
    ELSE <<[Name |-> Head(names), Type |-> paramType]>> \o ParamsOfNames(Tail(names), paramType)

RECURSIVE ParamsOfList(_)
ParamsOfList(list) ==
    IF list = <<>> THEN <<>>
    ELSE LET field == Head(list)
             paramType == typeToString(field.Type)
         IN  (IF Len(field.Names) = 0
              THEN <<[Name |-> "", Type |-> paramType]>>
              ELSE ParamsOfNames(field.Names, paramType))
             \o ParamsOfList(Tail(list))

extractParameters(fields) == IF fields.nil THEN <<>> ELSE ParamsOfList(fields.List)

RECURSIVE ReturnsOfList(_)
ReturnsOfList(list) ==
    IF list = <<>> THEN <<>>
    ELSE <<[Type |-> typeToString(Head(list).Type), Description |-> <<>>]>>
         \o ReturnsOfList(Tail(list))

extractReturns(fields) == IF fields.nil THEN <<>> ELSE ReturnsOfList(fields.List)

RECURSIVE FieldsOfNames(_, _, _)
FieldsOfNames(names, fieldType, tag) ==
    IF names = <<>> THEN <<>>
    ELSE <<[Name |-> Head(names), Type |-> fieldType, Tag |-> tag, Description |-> <<>>]>>
         \o FieldsOfNames(Tail(names), fieldType, tag)

\* A variant that drops the embedded fields.
FieldsOfGroup_NoEmbedded(field) ==
    FieldsOfNames(field.Names, typeToString(field.Type),
                  IF field.Tag.node # "nil" THEN field.Tag.Value ELSE "")

FieldsOfGroup(field) ==
    LET fieldType == typeToString(field.Type)
        tag == IF field.Tag.node # "nil" THEN field.Tag.Value ELSE ""
    IN  IF Len(field.Names) = 0
        THEN <<[Name |-> "", Type |-> fieldType, Tag |-> tag, Description |-> <<>>]>>
        ELSE FieldsOfNames(field.Names, fieldType, tag)

RECURSIVE FieldsOfList(_)
FieldsOfList(list) ==
    IF list = <<>> THEN <<>> ELSE FieldsOfGroup(Head(list)) \o FieldsOfList(Tail(list))

extractFields(structType) == FieldsOfList(structType.Fields.List)

(***************************************************************************)
(* fieldListToString, getFunctionSignature                                 *)
(***************************************************************************)
RECURSIVE PartsOfNames(_, _)
PartsOfNames(names, fieldType) ==
    IF names = <<>> THEN <<>>
    ELSE << <<Head(names), SP>> \o fieldType >> \o PartsOfNames(Tail(names), fieldType)

RECURSIVE PartsOfList(_)
PartsOfList(list) ==
    IF list = <<>> THEN <<>>
    ELSE LET field == Head(list)
             fieldType == typeToString(field.Type)
         IN  (IF Len(field.Names) = 0 THEN <<fieldType>>
              ELSE PartsOfNames(field.Names, fieldType))
             \o PartsOfList(Tail(list))

fieldListToString(fields) ==
    IF fields.nil THEN <<>> ELSE Join(PartsOfList(fields.List), <<",", SP>>)

Parens(text) == <<"(">> \o text \o <<")">>

\* A variant that always parenthesizes the results.
ResultParts_AlwaysParens(results) ==
    IF results.nil THEN <<>> ELSE <<Parens(fieldListToString(results))>>

\* The part of the signature for decl.Type.Results: no part, or one.
ResultParts(results) ==
    IF results.nil THEN <<>>
    ELSE IF Len(results.List) = 1 /\ Len(results.List[1].Names) = 0
    THEN <<fieldListToString(results)>>
    ELSE <<Parens(fieldListToString(results))>>

SignatureHeadParts(decl) ==
    << <<"func">> >>
    \o (IF decl.Recv.nil THEN <<>> ELSE <<Parens(fieldListToString(decl.Recv))>>)
    \o << <<decl.Name>> >>
    \o (IF decl.Type.Params.nil THEN << <<"(", ")">> >>
        ELSE <<Parens(fieldListToString(decl.Type.Params))>>)

getFunctionSignature(decl) ==
    Join(SignatureHeadParts(decl) \o ResultParts(decl.Type.Results), <<SP>>)

(***************************************************************************)
(* analyseFunctionDecl, analyseTypeDecl, analyseConstantDecl,              *)
(* analyseVariableDecl                                                     *)
(***************************************************************************)
analyseFunctionDecl(fn) ==
    LET typed == ~fn.Decl.nil /\ ~fn.Decl.Type.nil
    IN  [Name |-> fn.Name,
         Signature |-> IF typed THEN getFunctionSignature(fn.Decl) ELSE <<>>,
         Description |-> cleanDoc(fn.Doc),
         Parameters |-> IF typed THEN extractParameters(fn.Decl.Type.Params) ELSE <<>>,
         Returns |-> IF typed THEN extractReturns(fn.Decl.Type.Results) ELSE <<>>,
         Examples |-> extractExamples(fn.Doc),
         IsExported |-> IsExported(fn.Name),
         IsMethod |-> FALSE,
         Receiver |-> ""]

\* The loop over typ.Decl.Specs: the last type spec decides Kind and Fields.
RECURSIVE KindAndFields(_, _)
KindAndFields(specs, acc) ==
    IF specs = <<>> THEN acc
    ELSE LET ts == Head(specs)
         IN  KindAndFields(Tail(specs),
                IF ts.node = "TypeSpec"
                THEN [Kind |-> getTypeKind(ts.Type),
                      Fields |-> IF ts.Type.node = "StructType"
                                 THEN extractFields(ts.Type) ELSE acc.Fields]
                ELSE acc)

MethodNames(methods) == [i \in 1..Len(methods) |-> methods[i].Name]

analyseTypeDecl(typ) ==
    LET kf == IF typ.Decl.nil THEN [Kind |-> "", Fields |-> <<>>]
              ELSE KindAndFields(typ.Decl.Specs, [Kind |-> "", Fields |-> <<>>])
    IN  [Name |-> typ.Name,
         Kind |-> kf.Kind,
         Description |-> cleanDoc(typ.Doc),
         Fields |-> kf.Fields,
         Methods |-> MethodNames(typ.Methods),
         IsExported |-> IsExported(typ.Name)]

\* A variant that repeats the last value of the group for the names without one.
ConstantValue_Repeated(vs, i) ==
    IF i <= Len(vs.Values) /\ vs.Values[i].node # "nil"
    THEN exprToString(vs.Values[i])
    ELSE IF Len(vs.Values) > 0 /\ vs.Values[Len(vs.Values)].node # "nil"
    THEN exprToString(vs.Values[Len(vs.Values)])
    ELSE <<>>

ConstantValue(vs, i) ==
    IF i <= Len(vs.Values) /\ vs.Values[i].node # "nil"
    THEN exprToString(vs.Values[i])
    ELSE <<>>

ConstantsOfSpec(vs, docText) ==
    [i \in 1..Len(vs.Names) |->
        [Name |-> vs.Names[i],
         Type |-> IF vs.Type.node # "nil" THEN typeToString(vs.Type) ELSE <<>>,
         Value |-> ConstantValue(vs, i),
         Description |-> cleanDoc(docText),
         IsExported |-> IsExported(vs.Names[i])]]

RECURSIVE ConstantsOfSpecs(_, _)
ConstantsOfSpecs(specs, docText) ==
    IF specs = <<>> THEN <<>>
    ELSE (IF Head(specs).node = "ValueSpec" THEN ConstantsOfSpec(Head(specs), docText)
          ELSE <<>>)
         \o ConstantsOfSpecs(Tail(specs), docText)

analyseConstantDecl(c) == ConstantsOfSpecs(c.Decl.Specs, c.Doc)

VariablesOfSpec(vs, docText) ==
    [i \in 1..Len(vs.Names) |->
        [Name |-> vs.Names[i],
         Type |-> IF vs.Type.node # "nil" THEN typeToString(vs.Type) ELSE <<>>,
         Description |-> cleanDoc(docText),
         IsExported |-> IsExported(vs.Names[i])]]

RECURSIVE VariablesOfSpecs(_, _)
VariablesOfSpecs(specs, docText) ==
    IF specs = <<>> THEN <<>>
    ELSE (IF Head(specs).node = "ValueSpec" THEN VariablesOfSpec(Head(specs), docText)
          ELSE <<>>)
         \o VariablesOfSpecs(Tail(specs), docText)

analyseVariableDecl(v) == VariablesOfSpecs(v.Decl.Specs, v.Doc)

(***************************************************************************)
(* AnalysePackage                                                          *)
(***************************************************************************)
HasSuffix(s, p) == Len(s) >= Len(p) /\ SubSeq(s, Len(s) - Len(p) + 1, Len(s)) = p

TestSuffix == <<"_test">>

\* A variant that takes a test package as well.
IsCandidate_Any(name) == TRUE

\* The test of the loop that selects the package.
IsCandidate(name) == ~HasSuffix(name, TestSuffix)

\* The orders in which a range loop may visit the keys of a map.
MapOrders(keys) ==
    {o \in [1..Cardinality(keys) -> keys] : \A k \in keys : \E i \in DOMAIN o : o[i] = k}

NilPackage == [nil |-> TRUE]

\* for name, p := range pkgs { if !strings.HasSuffix(name, "_test") { pkg = p; break } }
RECURSIVE SelectPackage(_)
SelectPackage(order) ==
    IF order = <<>> THEN NilPackage
    ELSE IF IsCandidate(Head(order)) THEN [nil |-> FALSE, name |-> Head(order)]
    ELSE SelectPackage(Tail(order))

\* strings.Trim(s, "\"")
RECURSIVE TrimQuotes(_)
TrimQuotes(s) ==
    IF s # <<>> /\ Head(s) = "\"" THEN TrimQuotes(Tail(s))
    ELSE IF s # <<>> /\ s[Len(s)] = "\"" THEN TrimQuotes(SubSeq(s, 1, Len(s) - 1))
    ELSE s

\* The keys of importSet.
ImportSet(files) ==
    UNION {{TrimQuotes(files[i].Imports[j]) : j \in DOMAIN files[i].Imports} : i \in DOMAIN files}

RECURSIVE FunctionsOf(_)
FunctionsOf(funcs) ==
    IF funcs = <<>> THEN <<>>
    ELSE <<analyseFunctionDecl(Head(funcs))>> \o FunctionsOf(Tail(funcs))

\* A variant that does not set the receiver of a method.
MethodInfo_NoReceiver(method, typ) == [analyseFunctionDecl(method) EXCEPT !.IsMethod = TRUE]

MethodInfo(method, typ) ==
    [analyseFunctionDecl(method) EXCEPT !.IsMethod = TRUE, !.Receiver = typ.Name]

RECURSIVE TypesOf(_)
TypesOf(types) ==
    IF types = <<>> THEN <<>>
    ELSE <<analyseTypeDecl(Head(types))>> \o TypesOf(Tail(types))

\* The FunctionInfo entries the loop over docPkg.Types appends.
RECURSIVE MethodsOf(_)
MethodsOf(types) ==
    IF types = <<>> THEN <<>>
    ELSE [i \in 1..Len(Head(types).Methods) |-> MethodInfo(Head(types).Methods[i], Head(types))]
         \o MethodsOf(Tail(types))

RECURSIVE ConstantsOf(_)
ConstantsOf(consts) ==
    IF consts = <<>> THEN <<>>
    ELSE analyseConstantDecl(Head(consts)) \o ConstantsOf(Tail(consts))

RECURSIVE VariablesOf(_)
VariablesOf(vs) ==
    IF vs = <<>> THEN <<>>
    ELSE analyseVariableDecl(Head(vs)) \o VariablesOf(Tail(vs))

NilInfo == [nil |-> TRUE]

\* The PackageInfo built from the selected package; imports is the import
\* list in the order the range over importSet produced it.
PackageInfo(dir, name, docPkg, imports) ==
    [nil |-> FALSE,
     Name |-> name,
     Path |-> dir,
     Description |-> cleanDoc(docPkg.Doc),
     Functions |-> FunctionsOf(docPkg.Funcs) \o MethodsOf(docPkg.Types),
     Types |-> TypesOf(docPkg.Types),
     Constants |-> ConstantsOf(docPkg.Consts),
     Variables |-> VariablesOf(docPkg.Vars),
     Examples |-> <<>>,
     Imports |-> imports]

ErrNil == "nil"
ErrParsing == "parsing package"
ErrNoPackage == "no Golang package found"

(***************************************************************************)
(* GeneratePackageDoc: enhanceDescriptions and generateExamples.  What the *)
(* language model answers is an input: an error, or the trimmed content of *)
(* its first choice, which may be empty.                                   *)
(***************************************************************************)
LLMResults ==
    {[err |-> TRUE, text |-> <<>>],
     [err |-> FALSE, text |-> <<>>],
     [err |-> FALSE, text |-> <<"generated">>]}

\* The description after one if len(description) < min { ... } block, where
\* r is what the language model answers when it is asked.
Enhanced_Always(description, min, r) ==
    IF ~r.err /\ r.text # <<>> THEN r.text ELSE description

Enhanced(description, min, r) ==
    IF Len(description) < min /\ ~r.err /\ r.text # <<>> THEN r.text ELSE description

BasicUsage(example) == [Name |-> "Basic Usage", Code |-> example, Doc |-> "Basic usage example"]

\* The steps of GeneratePackageDoc on the model p in the order they run:
\* the package description, each function and each type description, and
\* with config.GenerateExamples the package example and each function example.
Positions(p, config) ==
    <<[at |-> "package", i |-> 0]>>
    \o [i \in 1..Len(p.Functions) |-> [at |-> "functions", i |-> i]]
    \o [i \in 1..Len(p.Types) |-> [at |-> "types", i |-> i]]
    \o (IF config.GenerateExamples
        THEN <<[at |-> "example", i |-> 0]>>
             \o [i \in 1..Len(p.Functions) |-> [at |-> "examples", i |-> i]]
        ELSE <<>>)
    \o <<[at |-> "done", i |-> 0]>>

NextPosition(pos, p, config) ==
    LET ps == Positions(p, config)
    IN  ps[(CHOOSE k \in DOMAIN ps : ps[k] = pos) + 1]

(***************************************************************************)
(* generateDocs without a package name: filepath.Walk over the project.    *)
(* A name is a sequence of pieces, a path a sequence of names, and a tree  *)
(* the sequence of its entries [path, isDir] in the order Walk visits them.*)
(***************************************************************************)
shouldSkipDir(path) ==
    LET base == path[Len(path)]
    IN  \/ base = <<"vendor">>
        \/ base = <<".git">>
        \/ base = <<"testdata">>
        \/ HasSuffix(base, <<"_test">>)

\* The error is nil here: os.ReadDir succeeded.
hasGoSourceFiles(dir, tree) ==
    \E k \in DOMAIN tree :
        /\ ~tree[k].isDir
        /\ SubSeq(tree[k].path, 1, Len(tree[k].path) - 1) = dir
        /\ HasSuffix(tree[k].path[Len(tree[k].path)], <<".go">>)
        /\ ~HasSuffix(tree[k].path[Len(tree[k].path)], <<"_test", ".go">>)

\* The index of the first entry after entry k that is not inside it: where
\* Walk goes on after the walk function returned filepath.SkipDir.
AfterDir(tree, k) ==
    LET later == {j \in (k + 1)..Len(tree) : ~HasPrefix(tree[j].path, tree[k].path)}
    IN  IF later = {} THEN Len(tree) + 1 ELSE CHOOSE j \in later : \A i \in later : j <= i

\* A variant that returns the error of generatePackageDocs.
WalkFuncReturn_Error(err) == err

\* What the walk function returns after generatePackageDocs returned err.
WalkFuncReturn(err) == "nil"

(***************************************************************************)
(* The doc texts the scanner is run on                                     *)
(***************************************************************************)
LinePool ==
    { <<>>,
      UsageMarker,
      <<SP, "Example:", SP>>,
      FenceGo,
      Fence,
      <<"Trailing">>,
      Indent4 \o <<"x.Do()">>,
      IndentTab \o <<"y.Do()">>,
      Indent4 \o IndentTab \o <<"x.Do()">>,
      Indent4 \o <<SP, SP>> }

\* The sequences of at most n elements of S.
SeqsUpTo(S, n) == UNION {[1..k -> S] : k \in 0..n}

\* The input of the testable property of the Example Miner.
SpecExampleLines ==
    << UsageMarker, Indent4 \o <<"x.Do()">>, Indent4 \o <<"y.Do()">>, <<>>, <<"Trailing">> >>

\* The doc text of a sequence of lines.
DocOf(ls) == Join(ls, <<NL>>)

\* The characters of the doc texts cleanDoc is run on.
DocChars == {SP, TAB, NL, CR, "a"}

(***************************************************************************)
(* The declarations the extractors are run on                              *)
(***************************************************************************)
ParamNames == <<"a", "b", "c", "d">>
ConstNames == <<"A", "b", "N", "d">>

NamesUpTo(pool, n) == {SubSeq(pool, 1, k) : k \in 0..n}

FuncTypePool == {Ident("int"), StarExpr(Ident("T"))}

FieldTypePool ==
    { Ident("string"),
      Ident("Reader"),
      MapType(Ident("string"), ArrayType(SelectorExpr(Ident("io"), "Reader"))),
      FuncType }

\* The types without a type inside: names, interfaces without and with
\* methods, and the nodes typeToString has no case for.
LeafTypes ==
    { Ident("int"),
      InterfaceType(FieldList(<<>>)),
      InterfaceType(FieldList(<<Field(<<"Read">>, FuncType, NilExpr)>>)),
      FuncType,
      ChanType,
      StructType(FieldList(<<>>)) }

\* The type expressions nested at most n deep.
RECURSIVE TypeExprs(_)
TypeExprs(n) ==
    IF n = 0 THEN LeafTypes
    ELSE LET sub == TypeExprs(n - 1)
         IN  LeafTypes
             \cup {StarExpr(x) : x \in sub}
             \cup {ArrayType(x) : x \in sub}
             \cup {MapType(k, v) : k \in sub, v \in sub}
             \cup {SelectorExpr(Ident("io"), "Reader")}

TagPool == {NilExpr, BasicLit("json:\"name\"")}

ParamGroups == {Field(ns, t, NilExpr) : ns \in NamesUpTo(ParamNames, MaxNames), t \in FuncTypePool}

StructGroups ==
    {Field(ns, t, tag) : ns \in NamesUpTo(ParamNames, MaxNames), t \in FieldTypePool, tag \in TagPool}

TwoParams == <<Field(<<"a", "b">>, Ident("int"), NilExpr), Field(<<>>, StarExpr(Ident("T")), NilExpr)>>

ParamLists == {FieldList(<<>>), FieldList(TwoParams), NilFieldList}
                \cup {FieldList(<<g>>) : g \in ParamGroups}

NilDecl == [nil |-> TRUE]
NilFuncType == [nil |-> TRUE]

FuncDecl(recv, name, params, results) ==
    [nil |-> FALSE, Recv |-> recv, Name |-> name,
     Type |-> [nil |-> FALSE, Params |-> params, Results |-> results]]

DocFunc(name, docText, decl) == [Name |-> name, Doc |-> docText, Decl |-> decl]

UsageDoc == Join(<<UsageMarker, Indent4 \o <<"x.Do()">>, <<>>, <<"Trailing">>  >>, <<NL>>)
PlainDoc == <<"F", SP, "does", SP, CR, NL, SP, NL, "it.", NL>>

ReceiverList == FieldList(<<Field(<<"t">>, StarExpr(Ident("T")), NilExpr)>>)

\* The functions and methods with parameters ps and results rs.
FuncsWith(ps, rs) ==
    {DocFunc("F", UsageDoc, FuncDecl(NilFieldList, "F", ps, rs)),
     DocFunc("g", PlainDoc, FuncDecl(ReceiverList, "g", ps, rs))}

\* The functions without a declaration or without a type.
UntypedFuncs ==
    {DocFunc("F", UsageDoc, NilDecl),
     DocFunc("g", <<>>, [nil |-> FALSE, Recv |-> NilFieldList, Name |-> "g", Type |-> NilFuncType])}

TypeSpec(t) == [node |-> "TypeSpec", Type |-> t]
OtherSpec == [node |-> "ImportSpec"]

GenDecl(specs) == [nil |-> FALSE, Specs |-> specs]

DocType(name, docText, decl, methods) ==
    [Name |-> name, Doc |-> docText, Decl |-> decl, Methods |-> methods]

MethodM == DocFunc("M", <<>>, FuncDecl(ReceiverList, "M", FieldList(<<>>), NilFieldList))
MethodN == DocFunc("n", PlainDoc,
                   FuncDecl(ReceiverList, "n", FieldList(<<>>),
                            FieldList(<<Field(<<>>, Ident("int"), NilExpr)>>)))

MethodLists == {<<>>, <<MethodM>>, <<MethodM, MethodN>>}

\* The struct type with the field groups l.
StructDecl(l) == DocType("T", PlainDoc, GenDecl(<<TypeSpec(StructType(FieldList(l)))>>), <<MethodM>>)

TypePool ==
    {DocType("U", <<>>, GenDecl(<<TypeSpec(t)>>), ms) :
            t \in FieldTypePool \cup {InterfaceType(FieldList(<<>>)), ChanType, ArrayType(Ident("int"))},
            ms \in MethodLists}
    \cup {DocType("T", <<>>, NilDecl, <<MethodM, MethodN>>),
          DocType("u", <<>>, GenDecl(<<OtherSpec>>), <<>>),
          DocType("T", <<>>,
                  GenDecl(<<TypeSpec(StructType(FieldList(<<Field(<<"a">>, Ident("string"), NilExpr)>>))),
                            TypeSpec(Ident("int"))>>), <<>>)}

ValuePool == {BasicLit("1"), BasicLit("2"), Ident("iota"), BinaryExpr, NilExpr}

ValueSpec(names, type, values) ==
    [node |-> "ValueSpec", Names |-> names, Type |-> type, Values |-> values]

DocValue(docText, specs) == [Doc |-> docText, Decl |-> GenDecl(specs)]

\* The specs that may follow the first one of a declaration.
MoreSpecs ==
    {ValueSpec(<<"N">>, NilExpr, <<>>), OtherSpec,
     ValueSpec(<<"d", "A">>, Ident("int"), <<Ident("iota"), BasicLit("2")>>)}

(***************************************************************************)
(* The directories AnalysePackage is run on                                *)
(***************************************************************************)
PackageNames == {<<"a">>, <<"b">>, <<"a", "_test">>}

File(imports) == [Imports |-> imports]

Quoted(path) == <<"\"", path, "\"">>

TypeT(methods) ==
    DocType("T", PlainDoc,
            GenDecl(<<TypeSpec(StructType(FieldList(<<Field(<<"a", "b">>, Ident("string"), NilExpr),
                                                      Field(<<>>, Ident("Reader"), NilExpr)>>)))>>),
            methods)

TypeU(methods) == DocType("U", <<>>, GenDecl(<<TypeSpec(InterfaceType(FieldList(<<>>)))>>), methods)

FuncF ==
    DocFunc("F", UsageDoc,
            FuncDecl(NilFieldList, "F", FieldList(<<Field(<<"a">>, Ident("int"), NilExpr)>>),
                     FieldList(<<Field(<<>>, Ident("error"), NilExpr)>>)))

\* A function with the name of a method.
FuncM == DocFunc("M", <<>>, FuncDecl(NilFieldList, "M", FieldList(<<>>), NilFieldList))

ConstsAB == DocValue(PlainDoc, <<ValueSpec(<<"A", "b">>, NilExpr, <<BasicLit("1")>>)>>)

DocPackage(docText, funcs, types, consts, vs, files) ==
    [Doc |-> docText, Funcs |-> funcs, Types |-> types, Consts |-> consts, Vars |-> vs,
     Files |-> files]

PackagePool ==
    { DocPackage(<<>>, <<>>, <<>>, <<>>, <<>>, <<File(<<>>)>>),
      DocPackage(PlainDoc, <<FuncF>>, <<TypeT(<<MethodM, MethodN>>), TypeU(<<>>)>>,
                 <<ConstsAB>>, <<ConstsAB>>,
                 <<File(<<Quoted("fmt"), Quoted("io")>>), File(<<Quoted("fmt")>>)>>),
      DocPackage(<<>>, <<FuncM>>, <<TypeU(<<MethodM>>), TypeT(<<MethodN, MethodM>>)>>,
                 <<>>, <<>>, <<File(<<Quoted("io")>>)>>) }

Directories == UNION {[names -> PackagePool] : names \in SUBSET PackageNames}

(***************************************************************************)
(* The package models GeneratePackageDoc is run on.  Only the fields the   *)
(* enhancement reads or writes are kept.                                   *)
(***************************************************************************)
\* A text of n bytes.
TextOfLen(n) == [i \in 1..n |-> "x"]

FunctionInfos ==
    {[Name |-> name, Description |-> TextOfLen(n), Examples |-> ex, IsExported |-> IsExported(name)] :
        name \in {"F", "g"},
        n \in {MinFunctionDescription - 1, MinFunctionDescription},
        ex \in {<<>>, << <<"F()">> >>}}

TypeInfos ==
    {[Name |-> "T", Description |-> TextOfLen(0)],
     [Name |-> "U", Description |-> TextOfLen(MinTypeDescription)]}

(***************************************************************************)
(* The project trees generateDocs walks: these directories, with any of    *)
(* the files.                                                              *)
(***************************************************************************)
ProjectTree ==
    << [path |-> << <<".">> >>, isDir |-> TRUE],
       [path |-> << <<".">>, <<"a">> >>, isDir |-> TRUE],
       [path |-> << <<".">>, <<"a">>, <<"a", ".go">> >>, isDir |-> FALSE],
       [path |-> << <<".">>, <<"a">>, <<"vendor">> >>, isDir |-> TRUE],
       [path |-> << <<".">>, <<"a">>, <<"vendor">>, <<"v", ".go">> >>, isDir |-> FALSE],
       [path |-> << <<".">>, <<"b", "_test">> >>, isDir |-> TRUE],
       [path |-> << <<".">>, <<"b", "_test">>, <<"b", ".go">> >>, isDir |-> FALSE],
       [path |-> << <<".">>, <<"c">> >>, isDir |-> TRUE],
       [path |-> << <<".">>, <<"c">>, <<"c", "_test", ".go">> >>, isDir |-> FALSE],
       [path |-> << <<".">>, <<"d">> >>, isDir |-> TRUE],
       [path |-> << <<".">>, <<"d">>, <<"d", ".go">> >>, isDir |-> FALSE],
       [path |-> << <<".">>, <<"main", ".go">> >>, isDir |-> FALSE] >>

(***************************************************************************)
(* State                                                                   *)
(***************************************************************************)
VARIABLES
    doc,            \* extractExamples: the argument
    lines,          \* extractExamples: strings.Split(doc, "\n")
    idx,            \* extractExamples: index of the next line of the range loop
    inExample,      \* extractExamples: var inExample bool
    currentExample, \* extractExamples: var currentExample strings.Builder
    examples,       \* extractExamples: var examples []string
    result,         \* extractExamples: the value returned
    mpc,            \* extractExamples: "start", "loop" or "done" (returned)
    decl,           \* the declaration handed to an analyse...Decl method
    info,           \* what that method returned
    dpc,            \* "call" before the method ran, "done" after
    dirPkgs,        \* the packages parser.ParseDir finds in the directory, by name
    dirErr,         \* whether parser.ParseDir fails on the directory
    fset,           \* Analyser.fset: the number of files registered in it
    calls,          \* AnalysePackage: per call, the local pkg and the values returned
    genArg,         \* GeneratePackageDoc: *pkg as it was when the call started
    genPkg,         \* GeneratePackageDoc: *pkg
    genConfig,      \* GeneratePackageDoc: config
    gpc,            \* GeneratePackageDoc: the step it is at
    walkTree,       \* generateDocs: the tree under projectDir
    walkAt,         \* filepath.Walk: index of the entry the walk function is called on next
    analysed,       \* the directories generatePackageDocs was called on, in order
    logged,         \* the errors log.Printf reported, with their directories
    walkRet         \* "running", or what filepath.Walk returned

minerVars == <<doc, lines, idx, inExample, currentExample, examples, result, mpc>>
declVars == <<decl, info, dpc>>
analyserVars == <<dirPkgs, dirErr, fset, calls>>
genVars == <<genArg, genPkg, genConfig, gpc>>
walkVars == <<walkTree, walkAt, analysed, logged, walkRet>>

vars == <<doc, lines, idx, inExample, currentExample, examples, result, mpc,
          decl, info, dpc, dirPkgs, dirErr, fset, calls,
          genArg, genPkg, genConfig, gpc,
          walkTree, walkAt, analysed, logged, walkRet>>

MinerIdle ==
    /\ doc = <<>>
    /\ lines = <<>>
    /\ idx = 1
    /\ inExample = FALSE
    /\ currentExample = <<>>
    /\ examples = <<>>
    /\ result = <<>>
    /\ mpc = "idle"

DeclIdle ==
    /\ decl = [kind |-> "none"]
    /\ info = <<>>
    /\ dpc = "idle"

AnalyserIdle ==
    /\ dirPkgs = <<>>
    /\ dirErr = FALSE
    /\ fset = 0
    /\ calls = <<>>

GenIdle ==
    /\ genArg = <<>>
    /\ genPkg = <<>>
    /\ genConfig = [GenerateExamples |-> FALSE]
    /\ gpc = [at |-> "idle", i |-> 0]

WalkIdle ==
    /\ walkTree = <<>>
    /\ walkAt = 1
    /\ analysed = <<>>
    /\ logged = <<>>
    /\ walkRet = "idle"

(***************************************************************************)
(* extractExamples as a process                                            *)
(***************************************************************************)
MinerInit ==
    /\ \/ \E k \in 1..MaxLines : \E ls \in [1..k -> LinePool] : doc = DocOf(ls)
       \/ doc = DocOf(SpecExampleLines)
    /\ lines = <<>>
    /\ idx = 1
    /\ inExample = FALSE
    /\ currentExample = <<>>
    /\ examples = <<>>
    /\ result = <<>>
    /\ mpc = "start"
    /\ DeclIdle
    /\ AnalyserIdle
    /\ GenIdle
    /\ WalkIdle

MinerSplit ==
    /\ mpc = "start"
    /\ lines' = SplitLines(doc)
    /\ mpc' = "loop"
    /\ UNCHANGED <<doc, idx, inExample, currentExample, examples, result>>
    /\ UNCHANGED declVars
    /\ UNCHANGED analyserVars
    /\ UNCHANGED genVars
    /\ UNCHANGED walkVars

MinerLine ==
    /\ mpc = "loop"
    /\ idx <= Len(lines)
    /\ LET m == ScanLine([inExample |-> inExample, currentExample |-> currentExample,
                          examples |-> examples], lines[idx])
       IN  /\ inExample' = m.inExample
           /\ currentExample' = m.currentExample
           /\ examples' = m.examples
    /\ idx' = idx + 1
    /\ UNCHANGED <<doc, lines, result, mpc>>
    /\ UNCHANGED declVars
    /\ UNCHANGED analyserVars
    /\ UNCHANGED genVars
    /\ UNCHANGED walkVars

MinerReturn ==
    /\ mpc = "loop"
    /\ idx > Len(lines)
    /\ result' = ReturnedExamples([inExample |-> inExample,
                                    currentExample |-> currentExample,
                                    examples |-> examples])
    /\ mpc' = "done"
    /\ UNCHANGED <<doc, lines, idx, inExample, currentExample, examples>>
    /\ UNCHANGED declVars
    /\ UNCHANGED analyserVars
    /\ UNCHANGED genVars
    /\ UNCHANGED walkVars

MinerNext == MinerSplit \/ MinerLine \/ MinerReturn

SpecMiner == MinerInit /\ [][MinerNext]_vars

(***************************************************************************)
(* The analyse...Decl methods, each applied to one declaration             *)
(***************************************************************************)
DeclInit ==
    /\ MinerIdle
    /\ \/ \E ps \in ParamLists :
            \E k \in 0..MaxFields : \E rs \in [1..k -> ParamGroups] :
                \E f \in FuncsWith(ps, FieldList(rs)) : decl = [kind |-> "func", value |-> f]
       \/ \E ps \in ParamLists :
            \E f \in FuncsWith(ps, NilFieldList) \cup UntypedFuncs :
                decl = [kind |-> "func", value |-> f]
       \/ \E k \in 0..MaxFields : \E l \in [1..k -> StructGroups] :
            decl = [kind |-> "type", value |-> StructDecl(l)]
       \/ \E k \in 0..MaxChars : \E d \in [1..k -> DocChars] :
            decl = [kind |-> "func", value |-> DocFunc("F", d, NilDecl)]
       \/ \E t \in TypePool : decl = [kind |-> "type", value |-> t]
       \/ \E t \in TypeExprs(MaxDepth) :
            decl = [kind |-> "type", value |-> StructDecl(<<Field(<<"a">>, t, NilExpr)>>)]
       \/ \E kind \in {"const", "var"} :
            \E n \in 1..MaxNames : \E t \in {NilExpr, Ident("int")} :
                \E k \in 0..(MaxNames + 1) : \E vs \in [1..k -> ValuePool] :
                    \E j \in 0..MaxSpecs : \E rest \in [1..j -> MoreSpecs] :
                        decl = [kind |-> kind,
                                value |-> DocValue(PlainDoc,
                                            <<ValueSpec(SubSeq(ConstNames, 1, n), t, vs)>> \o rest)]
    /\ info = <<>>
    /\ dpc = "call"
    /\ AnalyserIdle
    /\ GenIdle
    /\ WalkIdle

AnalyseFunctionDecl ==
    /\ dpc = "call"
    /\ decl.kind = "func"
    /\ info' = analyseFunctionDecl(decl.value)
    /\ dpc' = "done"
    /\ UNCHANGED <<decl>>
    /\ UNCHANGED minerVars
    /\ UNCHANGED analyserVars
    /\ UNCHANGED genVars
    /\ UNCHANGED walkVars

AnalyseTypeDecl ==
    /\ dpc = "call"
    /\ decl.kind = "type"
    /\ info' = analyseTypeDecl(decl.value)
    /\ dpc' = "done"
    /\ UNCHANGED <<decl>>
    /\ UNCHANGED minerVars
    /\ UNCHANGED analyserVars
    /\ UNCHANGED genVars
    /\ UNCHANGED walkVars

AnalyseConstantDecl ==
    /\ dpc = "call"
    /\ decl.kind = "const"
    /\ info' = analyseConstantDecl(decl.value)
    /\ dpc' = "done"
    /\ UNCHANGED <<decl>>
    /\ UNCHANGED minerVars
    /\ UNCHANGED analyserVars
    /\ UNCHANGED genVars
    /\ UNCHANGED walkVars

AnalyseVariableDecl ==
    /\ dpc = "call"
    /\ decl.kind = "var"
    /\ info' = analyseVariableDecl(decl.value)
    /\ dpc' = "done"
    /\ UNCHANGED <<decl>>
    /\ UNCHANGED minerVars
    /\ UNCHANGED analyserVars
    /\ UNCHANGED genVars
    /\ UNCHANGED walkVars

DeclNext == AnalyseFunctionDecl \/ AnalyseTypeDecl \/ AnalyseConstantDecl \/ AnalyseVariableDecl

SpecDecl == DeclInit /\ [][DeclNext]_vars

(***************************************************************************)
(* AnalysePackage, called repeatedly on one directory by one Analyser      *)
(***************************************************************************)
Dir == "./pkg"

NumFiles(pkgs) ==
    LET RECURSIVE Sum(_)
        Sum(names) == IF names = {} THEN 0
                      ELSE LET n == CHOOSE x \in names : TRUE
                           IN  Len(pkgs[n].Files) + Sum(names \ {n})
    IN  Sum(DOMAIN pkgs)

AnalyserInit ==
    /\ MinerIdle
    /\ DeclIdle
    /\ dirPkgs \in Directories
    /\ dirErr \in BOOLEAN
    /\ fset = 0
    /\ calls = <<>>
    /\ GenIdle
    /\ WalkIdle

AnalysePackage ==
    /\ Len(calls) < MaxCalls
    /\ fset' = fset + NumFiles(dirPkgs)
    /\ IF dirErr
       THEN calls' = Append(calls, [pkg |-> NilPackage, info |-> NilInfo, err |-> ErrParsing])
       ELSE \E order \in MapOrders(DOMAIN dirPkgs) :
              LET pkg == SelectPackage(order)
              IN  IF pkg.nil
                  THEN calls' = Append(calls, [pkg |-> pkg, info |-> NilInfo,
                                               err |-> ErrNoPackage])
                  ELSE \E imports \in MapOrders(ImportSet(dirPkgs[pkg.name].Files)) :
                          calls' = Append(calls,
                                     [pkg |-> pkg,
                                      info |-> PackageInfo(Dir, pkg.name, dirPkgs[pkg.name],
                                                           imports),
                                      err |-> ErrNil])
    /\ UNCHANGED <<dirPkgs, dirErr>>
    /\ UNCHANGED minerVars
    /\ UNCHANGED declVars
    /\ UNCHANGED genVars
    /\ UNCHANGED walkVars

AnalyserNext == AnalysePackage

SpecAnalyse == AnalyserInit /\ [][AnalyserNext]_vars

(***************************************************************************)
(* GeneratePackageDoc, called once on a package model, one request to the  *)
(* language model per step.  The template only reads the model, so the     *)
(* rendered text is left out.                                              *)
(***************************************************************************)
GenInit ==
    /\ MinerIdle
    /\ DeclIdle
    /\ AnalyserIdle
    /\ WalkIdle
    /\ \E n \in {0, MinPackageDescription - 1, MinPackageDescription} :
       \E ex \in {<<>>, <<[Name |-> "Open", Code |-> <<"Open()">>, Doc |-> "Opening"]>>} :
         \E k \in 0..MaxInfos : \E fs \in [1..k -> FunctionInfos] :
             \E j \in 0..MaxInfos : \E ts \in [1..j -> TypeInfos] :
                 genArg = [Description |-> TextOfLen(n), Functions |-> fs, Types |-> ts, Examples |-> ex]
    /\ genPkg = genArg
    /\ genConfig \in [GenerateExamples : BOOLEAN]
    /\ gpc = [at |-> "package", i |-> 0]

EnhancePackageDescription ==
    /\ gpc.at = "package"
    /\ \E r \in LLMResults :
          genPkg' = [genPkg EXCEPT
                        !.Description = Enhanced(@, MinPackageDescription, r)]
    /\ gpc' = NextPosition(gpc, genPkg, genConfig)
    /\ UNCHANGED <<genArg, genConfig>>
    /\ UNCHANGED minerVars
    /\ UNCHANGED declVars
    /\ UNCHANGED analyserVars
    /\ UNCHANGED walkVars

EnhanceFunctionDescription ==
    /\ gpc.at = "functions"
    /\ \E r \in LLMResults :
          genPkg' = [genPkg EXCEPT
                        !.Functions[gpc.i].Description =
                            Enhanced(@, MinFunctionDescription, r)]
    /\ gpc' = NextPosition(gpc, genPkg, genConfig)
    /\ UNCHANGED <<genArg, genConfig>>
    /\ UNCHANGED minerVars
    /\ UNCHANGED declVars
    /\ UNCHANGED analyserVars
    /\ UNCHANGED walkVars

EnhanceTypeDescription ==
    /\ gpc.at = "types"
    /\ \E r \in LLMResults :
          genPkg' = [genPkg EXCEPT
                        !.Types[gpc.i].Description = Enhanced(@, MinTypeDescription, r)]
    /\ gpc' = NextPosition(gpc, genPkg, genConfig)
    /\ UNCHANGED <<genArg, genConfig>>
    /\ UNCHANGED minerVars
    /\ UNCHANGED declVars
    /\ UNCHANGED analyserVars
    /\ UNCHANGED walkVars

GeneratePackageExample ==
    /\ gpc.at = "example"
    /\ \E r \in LLMResults :
          genPkg' = IF Len(genPkg.Examples) = 0 /\ ~r.err /\ r.text # <<>>
                    THEN [genPkg EXCEPT !.Examples = Append(@, BasicUsage(r.text))]
                    ELSE genPkg
    /\ gpc' = NextPosition(gpc, genPkg, genConfig)
    /\ UNCHANGED <<genArg, genConfig>>
    /\ UNCHANGED minerVars
    /\ UNCHANGED declVars
    /\ UNCHANGED analyserVars
    /\ UNCHANGED walkVars

GenerateFunctionExample ==
    /\ gpc.at = "examples"
    /\ \E r \in LLMResults :
          genPkg' = IF /\ Len(genPkg.Functions[gpc.i].Examples) = 0
                       /\ genPkg.Functions[gpc.i].IsExported
                       /\ ~r.err
                       /\ r.text # <<>>
                    THEN [genPkg EXCEPT !.Functions[gpc.i].Examples = Append(@, r.text)]
                    ELSE genPkg
    /\ gpc' = NextPosition(gpc, genPkg, genConfig)
    /\ UNCHANGED <<genArg, genConfig>>
    /\ UNCHANGED minerVars
    /\ UNCHANGED declVars
    /\ UNCHANGED analyserVars
    /\ UNCHANGED walkVars

GenNext ==
    \/ EnhancePackageDescription
    \/ EnhanceFunctionDescription
    \/ EnhanceTypeDescription
    \/ GeneratePackageExample
    \/ GenerateFunctionExample

SpecGen == GenInit /\ [][GenNext]_vars

(***************************************************************************)
(* generateDocs with packageName empty: one step per call of the walk      *)
(* function.  Which files exist, which file system calls fail and how      *)
(* generatePackageDocs ends are inputs.                                    *)
(***************************************************************************)
WalkInit ==
    /\ MinerIdle
    /\ DeclIdle
    /\ AnalyserIdle
    /\ GenIdle
    /\ \E files \in SUBSET {k \in DOMAIN ProjectTree : ~ProjectTree[k].isDir} :
          walkTree = [i \in 1..(Len(ProjectTree) - Cardinality(files)) |->
                        ProjectTree[CHOOSE k \in DOMAIN ProjectTree \ files :
                                      Cardinality({j \in 1..k : j \notin files}) = i]]
    /\ walkAt = 1
    /\ analysed = <<>>
    /\ logged = <<>>
    /\ walkRet = "running"

WalkFunc ==
    /\ walkRet = "running"
    /\ LET entry == walkTree[walkAt]
           GoOn(next) ==
               /\ walkAt' = next
               /\ walkRet' = IF next > Len(walkTree) THEN "nil" ELSE "running"
       IN  \/ /\ walkRet' = "walk error"
              /\ UNCHANGED <<walkAt, analysed, logged>>
           \/ /\ ~entry.isDir
              /\ GoOn(walkAt + 1)
              /\ UNCHANGED <<analysed, logged>>
           \/ /\ entry.isDir
              /\ shouldSkipDir(entry.path)
              /\ GoOn(AfterDir(walkTree, walkAt))
              /\ UNCHANGED <<analysed, logged>>
           \/ /\ entry.isDir
              /\ ~shouldSkipDir(entry.path)
              /\ walkRet' = "read error"
              /\ UNCHANGED <<walkAt, analysed, logged>>
           \/ /\ entry.isDir
              /\ ~shouldSkipDir(entry.path)
              /\ ~hasGoSourceFiles(entry.path, walkTree)
              /\ GoOn(walkAt + 1)
              /\ UNCHANGED <<analysed, logged>>
           \/ /\ entry.isDir
              /\ ~shouldSkipDir(entry.path)
              /\ hasGoSourceFiles(entry.path, walkTree)
              /\ analysed' = Append(analysed, entry.path)
              /\ \E err \in {"nil", "analyzing package", "generating documentation",
                               "creating output directory", "writing documentation"} :
                    /\ logged' = IF err # "nil"
                                 THEN Append(logged, [path |-> entry.path, err |-> err])
                                 ELSE logged
                    /\ IF WalkFuncReturn(err) = "nil"
                       THEN GoOn(walkAt + 1)
                       ELSE walkRet' = WalkFuncReturn(err) /\ UNCHANGED walkAt
    /\ UNCHANGED walkTree
    /\ UNCHANGED minerVars
    /\ UNCHANGED declVars
    /\ UNCHANGED analyserVars
    /\ UNCHANGED genVars

WalkNext == WalkFunc

SpecWalk == WalkInit /\ [][WalkNext]_vars

(***************************************************************************)
(* Claims about the Example Miner                                          *)
(***************************************************************************)
IsMarkerLine(line) ==
    HasPrefix(TrimSpace(line), ExampleMarker) \/ HasPrefix(TrimSpace(line), UsageMarker)

\* C1: when the input ends while the scanner is still InExample and the
\* buffer is non-empty, the buffered content is returned as one more example;
\* when the buffer is empty nothing more is returned.
C1_AutoCloseAtEndOfInput ==
    mpc = "done" =>
        IF inExample /\ Len(currentExample) > 0
        THEN result = Append(examples, currentExample)
        ELSE result = examples

\* A line of code indented by exactly four spaces.
IsCodeLine4(line) ==
    /\ HasPrefix(line, Indent4)
    /\ Len(line) > 4
    /\ ~IsSpace(line[5])
    /\ ~IsMarkerLine(line)
    /\ ~Contains(line, Fence)

\* lines is a marker line, n >= 1 code lines, an empty line, then text
\* without any trigger.
UsageShape(ls, n) ==
    /\ n >= 1
    /\ Len(ls) >= n + 2
    /\ IsMarkerLine(ls[1])
    /\ \A i \in 2..(n + 1) : IsCodeLine4(ls[i])
    /\ ls[n + 2] = <<>>
    /\ \A i \in (n + 3)..Len(ls) : ~IsMarkerLine(ls[i]) /\ ~Contains(ls[i], FenceGo)

RECURSIVE UnindentedCode(_, _)
UnindentedCode(ls, n) ==
    IF n = 0 THEN <<>>
    ELSE UnindentedCode(ls, n - 1) \o SubSeq(ls[n + 1], 5, Len(ls[n + 1])) \o <<NL>>

\* C8: a marker line followed by n >= 1 lines indented by four spaces, an
\* empty line and text without a trigger yields exactly one example: the n
\* lines without their indentation, each followed by a newline.
C8_UsageBlockYieldsOneExample ==
    mpc = "done" =>
        \A n \in 1..Len(lines) :
            UsageShape(lines, n) => result = <<UnindentedCode(lines, n)>>

C8_Witness ==
    /\ mpc = "done"
    /\ lines = SpecExampleLines
    /\ UsageShape(lines, 2)
    /\ result = << <<"x.Do()", NL, "y.Do()", NL>> >>

TriggerSeen == \E i \in 1..(idx - 1) : i <= Len(lines) /\ IsTrigger(lines[i])

NoMarkerNoFence == \A i \in 1..Len(lines) : ~IsMarkerLine(lines[i]) /\ ~Contains(lines[i], Fence)

C9_Inv ==
    /\ Len(examples) > 0 => TriggerSeen
    /\ inExample => TriggerSeen
    /\ (mpc = "done" /\ NoMarkerNoFence) => result = <<>>

\* C9: an example is emitted only while InExample, that is only after a
\* trigger line was seen and before the block closed; a doc text with no
\* marker line and no fence yields zero examples.
C9_EmittedOnlyInExample ==
    /\ []C9_Inv
    /\ [][Len(examples') > Len(examples) => (inExample /\ ~inExample')]_vars

C9_Witness ==
    /\ mpc = "done"
    /\ NoMarkerNoFence
    /\ \E i \in 1..Len(lines) : IsIndented(lines[i]) /\ TrimSpace(lines[i]) # <<>>
    /\ \E i \in 2..Len(lines) : lines[i] = <<>> /\ IsIndented(lines[i - 1])
    /\ result = <<>>


(***************************************************************************)
(* Claims about the declaration extractors                                 *)
(***************************************************************************)
\* The number of values a field group declares: one per name, one if anonymous.
GroupSize(g) == IF Len(g.Names) = 0 THEN 1 ELSE Len(g.Names)

RECURSIVE SizeBefore(_, _)
SizeBefore(list, k) == IF k <= 1 THEN 0 ELSE SizeBefore(list, k - 1) + GroupSize(list[k - 1])

NumDeclared(fields) == IF fields.nil THEN 0 ELSE SizeBefore(fields.List, Len(fields.List) + 1)

\* The text of the declared value at position j of group g.
ValueText(g, j) ==
    IF Len(g.Names) = 0 THEN typeToString(g.Type)
    ELSE <<g.Names[j], SP>> \o typeToString(g.Type)

RECURSIVE CommaJoined(_, _, _)
\* The declared values of list from position j of group k on, joined by ", ".
CommaJoined(list, k, j) ==
    IF k > Len(list) THEN <<>>
    ELSE LET last == k = Len(list) /\ j >= GroupSize(list[k])
             rest == IF j < GroupSize(list[k]) THEN CommaJoined(list, k, j + 1)
                     ELSE CommaJoined(list, k + 1, 1)
         IN  ValueText(list[k], j) \o (IF last THEN <<>> ELSE <<",", SP>> \o rest)

TypedFunc == dpc = "done" /\ decl.kind = "func" /\ ~decl.value.Decl.nil /\ ~decl.value.Decl.Type.nil

SignatureHead == Join(SignatureHeadParts(decl.value.Decl), <<SP>>)

OneUnnamed(results) ==
    ~results.nil /\ NumDeclared(results) = 1 /\ Len(results.List[1].Names) = 0

\* C2 as stated: the return clause is the bare type text when exactly one
\* return value is declared and it is unnamed, and in every other case (zero,
\* one named or several return values) a parenthesized comma-joined list.
C2_ReturnClauseAsStated ==
    TypedFunc =>
        LET results == decl.value.Decl.Type.Results
        IN  info.Signature = SignatureHead \o <<SP>> \o
                (IF OneUnnamed(results) THEN typeToString(results.List[1].Type)
                 ELSE Parens(CommaJoined(results.List, 1, 1)))

\* C2 amended: the return clause is the bare type text when exactly one return
\* value is declared and it is unnamed; there is no return clause when the
\* declaration has no result list; in every other case (an empty result list,
\* one named or several return values) it is a parenthesized comma-joined list.
C2_ReturnClause ==
    TypedFunc =>
        LET results == decl.value.Decl.Type.Results
        IN  info.Signature =
                IF results.nil THEN SignatureHead
                ELSE SignatureHead \o <<SP>> \o
                        (IF OneUnnamed(results) THEN typeToString(results.List[1].Type)
                         ELSE Parens(CommaJoined(results.List, 1, 1)))

C2_Witness ==
    /\ TypedFunc
    /\ decl.value.Decl.Type.Results = FieldList(<<Field(<<"a">>, Ident("int"), NilExpr)>>)
    /\ info.Signature = <<"func", SP, "F", SP, "(", ")", SP, "(", "a", SP, "int", ")">>

\* C3: extractReturns expands grouped declarations per name as
\* extractParameters does: the number of ReturnInfo entries equals the number
\* of declared return values.
C3_ReturnsPerName ==
    TypedFunc =>
        /\ Len(info.Returns) = NumDeclared(decl.value.Decl.Type.Results)
        /\ Len(info.Returns) = Len(extractParameters(decl.value.Decl.Type.Results))

ConstDone == dpc = "done" /\ decl.kind = "const"

IsValueSpec(vs) == vs.node = "ValueSpec"

RECURSIVE NamesBefore(_, _)
NamesBefore(specs, k) ==
    IF k <= 1 THEN 0
    ELSE NamesBefore(specs, k - 1)
         + (IF IsValueSpec(specs[k - 1]) THEN Len(specs[k - 1].Names) ELSE 0)

\* C6: a constant group with n names yields exactly n entries in name order,
\* all with the same description; the entry of the name at position i has the
\* stringified value expression at position i when there is one and the empty
\* value otherwise.
C6_ConstantGroupExpansion ==
    ConstDone =>
        LET specs == decl.value.Decl.Specs
        IN  /\ Len(info) = NamesBefore(specs, Len(specs) + 1)
            /\ \A i, j \in 1..Len(info) : info[i].Description = info[j].Description
            /\ \A k \in 1..Len(specs) :
                  IsValueSpec(specs[k]) =>
                      \A i \in 1..Len(specs[k].Names) :
                          LET entry == info[NamesBefore(specs, k) + i]
                              present == i <= Len(specs[k].Values)
                                         /\ specs[k].Values[i] # NilExpr
                          IN  /\ entry.Name = specs[k].Names[i]
                              /\ entry.Description = cleanDoc(decl.value.Doc)
                              /\ present => entry.Value = exprToString(specs[k].Values[i])
                              /\ present => entry.Value # <<>>
                              /\ ~present => entry.Value = <<>>

C6_Witness ==
    /\ ConstDone
    /\ decl.value.Decl.Specs = <<ValueSpec(<<"A", "b">>, NilExpr, <<BasicLit("1")>>)>>
    /\ Len(info) = 2
    /\ info[1].Name = "A" /\ info[1].Value = <<"1">>
    /\ info[2].Name = "b" /\ info[2].Value = <<>>

StructDone ==
    /\ dpc = "done"
    /\ decl.kind = "type"
    /\ ~decl.value.Decl.nil
    /\ Len(decl.value.Decl.Specs) = 1
    /\ decl.value.Decl.Specs[1].node = "TypeSpec"
    /\ decl.value.Decl.Specs[1].Type.node = "StructType"

TagText(g) == IF g.Tag = NilExpr THEN "" ELSE g.Tag.Value

\* C10: the FieldInfo list of a struct has one entry per declared name, in
\* declaration order, each with the type text and tag of its group; a group
\* with no names yields exactly one entry with empty name at its position.
C10_StructFields ==
    StructDone =>
        LET list == decl.value.Decl.Specs[1].Type.Fields.List
        IN  /\ info.Kind = "struct"
            /\ Len(info.Fields) = SizeBefore(list, Len(list) + 1)
            /\ \A k \in 1..Len(list) :
                  \A j \in 1..GroupSize(list[k]) :
                      LET entry == info.Fields[SizeBefore(list, k) + j]
                      IN  /\ entry.Name = IF Len(list[k].Names) = 0 THEN ""
                                          ELSE list[k].Names[j]
                          /\ entry.Type = typeToString(list[k].Type)
                          /\ entry.Tag = TagText(list[k])

C10_Witness ==
    /\ StructDone
    /\ decl.value.Decl.Specs[1].Type.Fields.List =
          << Field(<<"a">>, Ident("string"), BasicLit("json:\"name\"")),
             Field(<<>>, Ident("Reader"), NilExpr) >>
    /\ Len(info.Fields) = 2
    /\ info.Fields[1] = [Name |-> "a", Type |-> <<"string">>, Tag |-> "json:\"name\"",
                         Description |-> <<>>]
    /\ info.Fields[2] = [Name |-> "", Type |-> <<"Reader">>, Tag |-> "", Description |-> <<>>]

\* The line without one layer of indentation: without its first tab, or
\* else without its first four spaces.
OneLayerStripped(line) ==
    IF HasPrefix(line, IndentTab) THEN TrimPrefix(line, IndentTab)
    ELSE TrimPrefix(line, Indent4)

\* The scanner is at a line that is neither a trigger nor a close.
AtPlainLine ==
    /\ mpc = "loop"
    /\ idx <= Len(lines)
    /\ ~IsTrigger(lines[idx])
    /\ ~IsClose(lines[idx], currentExample)

\* C16: while inExample, a line that begins with a tab or four spaces is
\* appended without exactly one layer of that indentation, any deeper
\* indentation kept; any other line that is not empty is ignored, and the
\* scanner stays inExample.
C16_OneLayerStripped ==
    [][(AtPlainLine /\ inExample /\ lines[idx] # <<>>) =>
          /\ inExample'
          /\ examples' = examples
          /\ currentExample' = IF IsIndented(lines[idx])
                                THEN currentExample \o OneLayerStripped(lines[idx]) \o <<NL>>
                                ELSE currentExample]_vars

\* The number of trigger lines among the first n lines.
TriggersSeen(n) == Cardinality({k \in 1..n : IsTrigger(lines[k])})

\* C17: a trigger line met while inExample empties the buffer and emits
\* nothing, and there are never more emitted examples than trigger lines
\* seen.
C17_TriggerDiscardsBuffer ==
    [][/\ (mpc = "loop" /\ idx <= Len(lines) /\ inExample /\ IsTrigger(lines[idx])) =>
            /\ examples' = examples
            /\ currentExample' = <<>>
            /\ inExample'
       /\ mpc' = "loop" => Len(examples') <= TriggersSeen(idx' - 1)
       /\ mpc' = "done" => Len(result') <= TriggersSeen(Len(lines))]_vars

C17_Witness ==
    /\ mpc = "loop"
    /\ idx = 4
    /\ lines[1] = UsageMarker
    /\ lines[2] = Indent4 \o <<"x.Do()">>
    /\ lines[3] = FenceGo
    /\ inExample
    /\ currentExample = <<>>
    /\ examples = <<>>

\* The rendering the table of the Type Stringifier gives: the recognized
\* shapes as listed, an interface only when it has no methods, and unknown
\* for everything else, at every depth.
RECURSIVE TableRendering(_)
TableRendering(t) ==
    CASE t.node = "Ident" -> <<t.Name>>
      [] t.node = "StarExpr" -> <<"*">> \o TableRendering(t.X)
      [] t.node = "ArrayType" -> <<"[]">> \o TableRendering(t.Elt)
      [] t.node = "MapType" ->
            <<"map[">> \o TableRendering(t.Key) \o <<"]">> \o TableRendering(t.Value)
      [] t.node = "SelectorExpr" -> TableRendering(t.X) \o <<".">> \o <<t.Sel>>
      [] t.node = "InterfaceType" /\ Len(t.Methods.List) = 0 -> <<"interface{}">>
      [] OTHER -> <<"unknown">>

\* C11: the type text of a struct field is never empty, and it is the
\* rendering of the table: a type whose shape is not one of the recognized
\* shapes (identifier, pointer, array, map, qualified name, interface with
\* no methods) renders as unknown, also inside a recognized shape.
C11_UnrecognizedRendersUnknown ==
    StructDone =>
        LET list == decl.value.Decl.Specs[1].Type.Fields.List
        IN  \A k \in 1..Len(list) :
                \A j \in 1..GroupSize(list[k]) :
                    LET entry == info.Fields[SizeBefore(list, k) + j]
                    IN  /\ entry.Type # <<>>
                        /\ entry.Type = TableRendering(list[k].Type)

FuncDone == dpc = "done" /\ decl.kind = "func"

\* C12: cleaning a cleaned description changes nothing, and a cleaned
\* description has no blank line, no line with leading or trailing
\* whitespace, and no carriage return before a line end.
C12_CleanDocIdempotent ==
    FuncDone =>
        LET c == info.Description
        IN  /\ cleanDoc(c) = c
            /\ c # <<>> =>
                  \A i \in DOMAIN SplitLines(c) :
                      LET line == SplitLines(c)[i]
                      IN  /\ line # <<>>
                          /\ ~IsSpace(line[1])
                          /\ ~IsSpace(line[Len(line)])
            /\ ~Contains(c, <<CR, NL>>)
            /\ c # <<>> => c[Len(c)] # CR

C12_Witness ==
    /\ FuncDone
    /\ decl.value.Doc = <<"a", CR, NL, NL, TAB, "a">>
    /\ info.Description = <<"a", NL, "a">>

(***************************************************************************)
(* Claims about AnalysePackage                                             *)
(***************************************************************************)
\* C4: two analyses of the same directory always select the same package,
\* one whose name does not end in the test suffix.
C4_DeterministicSelection ==
    \A i, j \in DOMAIN calls :
        /\ calls[i].pkg = calls[j].pkg
        /\ ~calls[i].pkg.nil => ~HasSuffix(calls[i].pkg.name, TestSuffix)

OnlyTestPackages == \A name \in DOMAIN dirPkgs : HasSuffix(name, TestSuffix)

RECURSIVE NumMethods(_)
NumMethods(types) ==
    IF types = <<>> THEN 0 ELSE Len(Head(types).Methods) + NumMethods(Tail(types))

\* Every list of the model has its entries.
Complete(pinfo) ==
    LET docPkg == dirPkgs[pinfo.Name]
    IN  /\ pinfo.Name \in DOMAIN dirPkgs
        /\ pinfo.Path = Dir
        /\ Len(pinfo.Functions) = Len(docPkg.Funcs) + NumMethods(docPkg.Types)
        /\ Len(pinfo.Types) = Len(docPkg.Types)
        /\ Len(pinfo.Constants) >= Len(docPkg.Consts)
        /\ Len(pinfo.Variables) >= Len(docPkg.Vars)
        /\ Cardinality({pinfo.Imports[i] : i \in DOMAIN pinfo.Imports}) = Len(pinfo.Imports)

\* C5: on a directory whose packages are all test-suffixed, or that has no
\* package, AnalysePackage returns the no-package-found error and no model;
\* whenever it returns a model the model is complete and the error is nil, and
\* it never returns neither.
C5_ModelOrError ==
    \A i \in DOMAIN calls :
        /\ (~dirErr /\ OnlyTestPackages) =>
              calls[i].err = ErrNoPackage /\ calls[i].info = NilInfo
        /\ ~calls[i].info.nil => calls[i].err = ErrNil /\ Complete(calls[i].info)
        /\ calls[i].info.nil => calls[i].err \in {ErrParsing, ErrNoPackage}

C5_Witness ==
    /\ ~dirErr
    /\ DOMAIN dirPkgs = {<<"a", "_test">>}
    /\ Len(calls) = 2
    /\ calls[1] = [pkg |-> NilPackage, info |-> NilInfo, err |-> ErrNoPackage]
    /\ calls[2] = calls[1]

Elems(seq) == {seq[i] : i \in DOMAIN seq}

\* C7: in every PackageInfo returned, every method name of a TypeInfo has a
\* FunctionInfo of that name with IsMethod = true and Receiver the name of the
\* type, and every FunctionInfo with IsMethod = true is named in the Methods
\* of the TypeInfo its Receiver names.
C7_MethodsAndFunctions ==
    \A i \in DOMAIN calls :
        ~calls[i].info.nil =>
            LET pinfo == calls[i].info
            IN  /\ \A t \in Elems(pinfo.Types) :
                      \A m \in Elems(t.Methods) :
                          \E f \in Elems(pinfo.Functions) :
                              f.Name = m /\ f.IsMethod /\ f.Receiver = t.Name
                /\ \A f \in Elems(pinfo.Functions) :
                      f.IsMethod =>
                          \E t \in Elems(pinfo.Types) :
                              t.Name = f.Receiver /\ f.Name \in Elems(t.Methods)

C7_Witness ==
    \E i \in DOMAIN calls :
        /\ ~calls[i].info.nil
        /\ \E t \in Elems(calls[i].info.Types) : t.Name = "T" /\ t.Methods = <<"n", "M">>
        /\ \E f \in Elems(calls[i].info.Functions) :
              f.Name = "n" /\ f.IsMethod /\ f.Receiver = "T"
        /\ \E f \in Elems(calls[i].info.Functions) :
              f.Name = "M" /\ f.IsMethod /\ f.Receiver = "U"
        /\ \E f \in Elems(calls[i].info.Functions) : f.Name = "M" /\ ~f.IsMethod

\* C15: a call of AnalysePackage leaves the state of the Analyser as it
\* was: the file set holds after the call what it held before, so nothing
\* of one call is there when the next call on the same Analyser starts.
C15_AnalyserStateUnchanged == [][fset' = fset]_vars

(***************************************************************************)
(* Claims about GeneratePackageDoc                                         *)
(***************************************************************************)
IsPrefix(a, b) == Len(a) <= Len(b) /\ SubSeq(b, 1, Len(a)) = a

Skipped(tree, k) ==
    \E j \in 1..k :
        /\ tree[j].isDir
        /\ shouldSkipDir(tree[j].path)
        /\ HasPrefix(tree[k].path, tree[j].path)

\* The directories the walk has to analyse among the first n entries.
ToAnalyse(tree, n) ==
    {tree[k].path : k \in {j \in 1..n : /\ j <= Len(tree)
                                         /\ tree[j].isDir
                                         /\ ~Skipped(tree, j)
                                         /\ hasGoSourceFiles(tree[j].path, tree)}}

\* C14: a failure of generatePackageDocs on one directory stops nothing but
\* that directory: every directory the walk has passed that is not skipped
\* and has Go source files was analysed, a walk that returned nil passed
\* the whole tree, and the walk never returns an error that was logged for
\* a directory.
C14_FailureStaysInDirectory ==
    walkRet # "idle" =>
        /\ ToAnalyse(walkTree, walkAt - 1) \subseteq Elems(analysed)
        /\ walkRet = "nil" => ToAnalyse(walkTree, Len(walkTree)) = Elems(analysed)
        /\ \A i \in DOMAIN logged : walkRet # logged[i].err

C14_Witness ==
    /\ walkRet = "nil"
    /\ logged = <<[path |-> << <<".">>, <<"a">> >>, err |-> "analyzing package"]>>
    /\ analysed = << << <<".">> >>, << <<".">>, <<"a">> >>, << <<".">>, <<"d">> >> >>

=============================================================================
